---- MODULE Spec2Model ----
(***************************************************************************)
(* The C conformance harness of libstorage (examples/c/storage.c) run      *)
(* against the asynchronous, callback-driven API of library/libstorage.h.  *)
(*                                                                         *)
(* Two threads are modelled.  The harness thread runs main: every check    *)
(* function allocates a Resp, dispatches one API call with `callback` and  *)
(* the Resp as userData, polls the Resp (wait_resp), reads it and frees it *)
(* (is_resp_ok).  The service thread invokes `callback` for the accepted   *)
(* calls; callback is modelled statement group by statement group, since   *)
(* it shares the Resp with the poller and takes no lock.                   *)
(***************************************************************************)
EXTENDS Integers, Sequences, FiniteSets, TLC

\* libstorage.h:34-40
RET_OK == 0
RET_ERR == 1
RET_MISSING_CALLBACK == 2
RET_PROGRESS == 3
\* storage.c:26, the value alloc_resp stores in r->ret
PENDING == -1
\* storage.c:11
MAX_RETRIES == 250

\* Most RET_PROGRESS invocations the service makes for one streaming call.
MaxProgress == 2
\* Blocks of a progress buffer that are modelled.
BufCells == 2

NULL == "NULL"
\* Memory that malloc returned and nothing wrote yet.
UNINIT == "UNINIT"
\* The opaque node handle storage_new returns.
CTX == "ctx"
\* A non-empty payload that fails every shape check of the harness.
BAD == "bad"
\* What reading uninitialised bytes as a string may yield.
Garbage == {"", BAD}
\* Stray bytes that follow a string read past the bytes that were written.
STRAY == "?"
\* No progress buffer attached (r->chunk == NULL).
NoBuf == << >>

TRUE_FALSE == {"true", "false"}

----------------------------------------------------------------------------
(* The harness: one table per function, one row per API call it makes.     *)

\* op: the API function; mode: how the Resp is consumed ("is_resp_ok",
\* "wait" for setup's wait_resp + r->ret test, "nowait" for a free_resp right
\* after the call); out: the variable is_resp_ok's res points to; buf: r->chunk
\* is malloc'ed before the call; arg: the session id or cid passed.
Call(op, mode, out, buf, arg) ==
    [op |-> op, mode |-> mode, out |-> out, buf |-> buf, arg |-> arg]

setup == << Call("storage_new", "wait", NULL, FALSE, "none") >>

start == << Call("storage_start", "is_resp_ok", NULL, FALSE, "none") >>

cleanup ==
    << Call("storage_stop", "is_resp_ok", NULL, FALSE, "none"),
       Call("storage_close", "is_resp_ok", NULL, FALSE, "none"),
       Call("storage_destroy", "nowait", NULL, FALSE, "none") >>

check_version == << Call("storage_version", "nowait", NULL, FALSE, "none") >>

check_repo == << Call("storage_repo", "is_resp_ok", "res", FALSE, "none") >>

check_debug == << Call("storage_debug", "is_resp_ok", "res", FALSE, "none") >>

check_spr == << Call("storage_spr", "is_resp_ok", "res", FALSE, "none") >>

check_peer_id == << Call("storage_peer_id", "is_resp_ok", "res", FALSE, "none") >>

update_log_level ==
    << Call("storage_log_level", "is_resp_ok", NULL, FALSE, "none") >>

check_upload_chunk ==
    << Call("storage_upload_init", "is_resp_ok", "session_id", FALSE, "none"),
       Call("storage_upload_chunk", "is_resp_ok", NULL, FALSE, "session_id"),
       Call("storage_upload_finalize", "is_resp_ok", "res", FALSE, "session_id") >>

\* Mutant of upload_cancel: the session is finalized after it was cancelled.
upload_cancel_ThenFinalize ==
    << Call("storage_upload_init", "is_resp_ok", "session_id", FALSE, "none"),
       Call("storage_upload_cancel", "is_resp_ok", NULL, FALSE, "session_id"),
       Call("storage_upload_finalize", "is_resp_ok", NULL, FALSE, "session_id") >>

upload_cancel ==
    << Call("storage_upload_init", "is_resp_ok", "session_id", FALSE, "none"),
       Call("storage_upload_cancel", "is_resp_ok", NULL, FALSE, "session_id") >>

\* Mutant of check_upload_file: a chunk is pushed before the file is uploaded.
check_upload_file_AfterChunk ==
    << Call("storage_upload_init", "is_resp_ok", "session_id", FALSE, "none"),
       Call("storage_upload_chunk", "is_resp_ok", NULL, FALSE, "session_id"),
       Call("storage_upload_file", "is_resp_ok", "cid", FALSE, "session_id") >>

check_upload_file ==
    << Call("storage_upload_init", "is_resp_ok", "session_id", FALSE, "none"),
       Call("storage_upload_file", "is_resp_ok", "cid", FALSE, "session_id") >>

check_download_stream ==
    << Call("storage_download_init", "is_resp_ok", NULL, FALSE, "cid"),
       Call("storage_download_stream", "is_resp_ok", "res", TRUE, "cid") >>

check_download_chunk ==
    << Call("storage_download_init", "is_resp_ok", NULL, FALSE, "cid"),
       Call("storage_download_chunk", "is_resp_ok", "res", TRUE, "cid") >>

check_download_cancel ==
    << Call("storage_download_cancel", "is_resp_ok", NULL, FALSE, "cid") >>

check_download_manifest ==
    << Call("storage_download_manifest", "is_resp_ok", "res", FALSE, "cid") >>

check_list == << Call("storage_list", "is_resp_ok", "res", FALSE, "none") >>

check_space == << Call("storage_space", "is_resp_ok", "res", FALSE, "none") >>

check_exists == << Call("storage_exists", "is_resp_ok", "res", FALSE, "cid") >>

check_delete == << Call("storage_delete", "is_resp_ok", NULL, FALSE, "cid") >>

\* main's steps in program order; realpath is the libc call between the uploads.
main ==
    << "setup", "check_version", "start", "check_repo", "check_debug",
       "check_spr", "check_peer_id", "check_upload_chunk", "upload_cancel",
       "realpath", "check_upload_file", "check_download_stream",
       "check_download_chunk", "check_download_cancel",
       "check_download_manifest", "check_list", "check_space",
       "check_exists_true", "check_delete", "check_exists_false",
       "update_log_level", "cleanup" >>

Calls(f) ==
    CASE f = "setup" -> setup
      [] f = "check_version" -> check_version
      [] f = "start" -> start
      [] f = "check_repo" -> check_repo
      [] f = "check_debug" -> check_debug
      [] f = "check_spr" -> check_spr
      [] f = "check_peer_id" -> check_peer_id
      [] f = "check_upload_chunk" -> check_upload_chunk
      [] f = "upload_cancel" -> upload_cancel
      [] f = "realpath" -> << >>
      [] f = "check_upload_file" -> check_upload_file
      [] f = "check_download_stream" -> check_download_stream
      [] f = "check_download_chunk" -> check_download_chunk
      [] f = "check_download_cancel" -> check_download_cancel
      [] f = "check_download_manifest" -> check_download_manifest
      [] f = "check_list" -> check_list
      [] f = "check_space" -> check_space
      [] f = "check_exists_true" -> check_exists
      [] f = "check_delete" -> check_delete
      [] f = "check_exists_false" -> check_exists
      [] f = "update_log_level" -> update_log_level
      [] OTHER -> cleanup

----------------------------------------------------------------------------
(* The service, as libstorage.h documents it.                              *)

\* libstorage.h:18-20, 207-209, 243, 261: the calls that report progress.
Streaming ==
    {"storage_upload_file", "storage_download_stream", "storage_download_chunk"}

\* libstorage.h:64-66: storage_version "does not involve a thread call": its
\* callback runs inside the call.  Every other call is asynchronous
\* (libstorage.h:7-11).
Synchronous == {"storage_version"}

\* storage.c:279 holds storage_destroy to be synchronous; libstorage.h does not
\* say so (lines 7-11 make it asynchronous): the callback may run inside the
\* call or after it.
MaybeSynchronous == {"storage_destroy"}

\* libstorage.h:192-221: the calls that end an upload session.
SessionEnding ==
    {"storage_upload_finalize", "storage_upload_cancel", "storage_upload_file"}

\* The n-th session id the service hands out (opaque, non-empty).
Sid(n) == CASE n = 1 -> "sid1" [] n = 2 -> "sid2" [] OTHER -> "sid3"

\* The payload that satisfies the harness's shape check of each call.
Good(op, n) ==
    CASE op = "storage_upload_init" -> Sid(n)
      [] op = "storage_repo" -> "./data-dir"
      [] op = "storage_debug" -> "{spr}"
      [] op = "storage_spr" -> "spr"
      [] op = "storage_upload_finalize" -> "cid"
      [] op = "storage_upload_file" -> "cid"
      [] op = "storage_download_manifest" -> "manifest"
      [] op = "storage_list" -> "[manifest]"
      [] op = "storage_space" -> "{totalBlocks}"
      [] OTHER -> "ok"

\* What a terminal RET_OK may carry (libstorage.h:13-16): the result data, data
\* of another shape, a lone NUL byte where a cid is expected, or nothing.
\* storage_upload_init always carries the session id (libstorage.h:168).
OkPayloads(op, n) ==
    CASE op = "storage_exists" -> TRUE_FALSE
      [] op \in {"storage_upload_finalize", "storage_upload_file"} ->
             {Good(op, n), "", NULL}
      [] op = "storage_upload_init" -> {Good(op, n)}
      [] op \in {"storage_repo", "storage_debug", "storage_spr",
                 "storage_download_manifest", "storage_list",
                 "storage_space"} -> {Good(op, n), BAD, NULL}
      [] OTHER -> {"ok", NULL}

\* A terminal RET_ERR carries an error message, or none.
ErrPayloads == {"error", NULL}

\* A RET_PROGRESS invocation carries a chunk of data (libstorage.h:18-20).
ProgressPayloads == {"Hello World!", BAD}

\* The bytes of a message, in blocks: a progress buffer is modelled by its
\* first BufCells blocks.
Cells(s) ==
    CASE s = NULL -> << >>
      [] s = "Hello World!" -> << "Hello ", "World!" >>
      [] OTHER -> << s >>

\* The len argument the service passes with msg.
StrLen(s) ==
    CASE s = NULL -> 0
      [] s = "" -> 1
      [] s = "Hello World!" -> 12
      [] s = "./data-dir" -> 10
      [] s = "true" -> 4
      [] s = "false" -> 5
      [] s = "error" -> 5
      [] s = "{spr}" -> 5
      [] s = "manifest" -> 8
      [] s = "[manifest]" -> 10
      [] s = "{totalBlocks}" -> 13
      [] s \in {"sid1", "sid2", "sid3"} -> 4
      [] s \in {"cid", "bad", "spr"} -> 3
      [] OTHER -> 2

----------------------------------------------------------------------------
(* State.                                                                  *)

VARIABLES
    \* harness thread
    step,         \* index into main of the function being run
    k,            \* index of the API call inside that function
    pc,           \* position inside the call pattern
    r,            \* the Resp the harness holds (id 0: none)
    retries,      \* wait_resp's local counter
    polls,        \* evaluations of get_ret(r) by the current wait_resp
    obs,          \* what the last get_ret(r) returned
    ret,          \* is_resp_ok's local ret (setup: outcome of the r->ret test)
    fret,         \* return value of the function being run
    res,          \* the function's local res
    session_id,   \* the function's local session_id
    cid,          \* main's cid
    storage_ctx,  \* main's storage_ctx
    mainRet,      \* the value main returned (PENDING before it returns)
    proc,         \* "running", "exited" (main returned) or "crashed"
    \* service thread
    inflight,     \* accepted calls whose terminal callback was not invoked yet
    store,        \* the cids the node's local store holds
    cb,           \* the callback invocation in progress (tok 0: none)
    \* history
    nalloc,       \* Resps allocated so far; the next one is nalloc + 1
    log,          \* the API calls of the function being run (of the last one,
                  \* once main returned), in order, with what became of each
    rets          \* the values main's steps returned, in order

hvars == << step, k, pc, r, retries, polls, obs, ret, fret, res, session_id,
            cid, storage_ctx, mainRet, proc >>
svars == << inflight, cb, store >>
vars == << hvars, svars, nalloc, log, rets >>

\* storage.c:13-19
NoResp == [id |-> 0, ret |-> PENDING, msg |-> NULL, chunk |-> NoBuf, len |-> 0]
NoCb == [tok |-> 0, ret |-> PENDING, msg |-> NULL, pc |-> "none"]
\* An invocation whose Resp the harness has freed: every statement it still
\* runs reads or writes freed memory.
Dangling == [tok |-> 0, ret |-> PENDING, msg |-> NULL, pc |-> "dangling"]

\* storage.c:569, 621: r->chunk = malloc(chunk_size + 1), bytes not written.
FreshBuf == [i \in 1..BufCells |-> UNINIT]

\* storage.c:21-28 (id names the allocation; buf: storage.c:569, 621)
alloc_resp(id, buf) ==
    [id |-> id, ret |-> PENDING, msg |-> NULL,
     chunk |-> IF buf THEN FreshBuf ELSE NoBuf, len |-> 0]

\* storage.c:50-58
get_ret(rr) == IF rr.id = 0 THEN RET_ERR ELSE rr.ret

Init ==
    /\ step = 1 /\ k = 1 /\ pc = "dispatch"
    /\ r = NoResp
    /\ retries = 0 /\ polls = 0 /\ obs = PENDING
    /\ ret = PENDING /\ fret = PENDING
    /\ res = NULL /\ session_id = NULL /\ cid = NULL /\ storage_ctx = NULL
    /\ mainRet = PENDING /\ proc = "running"
    /\ inflight = {} /\ cb = NoCb /\ store = {}
    /\ nalloc = 0 /\ log = << >> /\ rets = << >>

Running == proc = "running"
Fn == main[step]
Cur == Calls(Fn)[k]
\* The session the service creates for the storage_upload_init of function f.
SessionNo(f) ==
    CASE f = "check_upload_chunk" -> 1
      [] f = "upload_cancel" -> 2
      [] OTHER -> 3

----------------------------------------------------------------------------
(* The node's local store, which libstorage.h does not describe: exists     *)
(* answers "true" for the cids an upload stored and no delete removed.      *)

\* The response of storage_exists for the cid a.
ExistsAnswer(a) == IF a \in store THEN "true" ELSE "false"

\* What the terminal RET_OK of the accepted call e may carry.
Answers(e) ==
    IF e.op = "storage_exists"
    THEN {p \in OkPayloads(e.op, e.n) : p = ExistsAnswer(e.arg)}
    ELSE OkPayloads(e.op, e.n)

\* The store once the call e ended with code: an upload that succeeded has
\* stored its content, a delete that succeeded has removed the cid.
StoreAfter(e, code) ==
    IF code # RET_OK THEN store
    ELSE IF e.op \in {"storage_upload_finalize", "storage_upload_file"}
    THEN store \cup {Good(e.op, e.n)}
    ELSE IF e.op = "storage_delete" THEN store \ {e.arg}
    ELSE store

----------------------------------------------------------------------------
(* callback (storage.c:121-177), statement group by statement group.       *)

\* Mutant of cb_ret: RET_ERR is stored as the pending value.
cb_ret_ErrAsPending(rr, code) ==
    [rr EXCEPT !.ret = IF code = RET_ERR THEN PENDING ELSE code]

\* storage.c:133
cb_ret(rr, code) == [rr EXCEPT !.ret = code]

\* storage.c:136-141
cb_free(rr) == IF rr.msg # NULL THEN [rr EXCEPT !.msg = NULL, !.len = 0] ELSE rr

\* Mutant of memcpy: the buffer is replaced as a whole by the bytes copied.
memcpy_Whole(dst, src) ==
    [i \in DOMAIN dst |-> IF i <= Len(src) THEN src[i] ELSE UNINIT]

\* storage.c:147: memcpy(r->chunk, msg, len) writes the first len bytes of
\* the buffer and no other.
memcpy(dst, src) ==
    [i \in DOMAIN dst |-> IF i <= Len(src) THEN src[i] ELSE dst[i]]

\* storage.c:145-149
cb_chunk(rr, code, msg, len) ==
    IF code = RET_PROGRESS /\ msg # NULL /\ len > 0 /\ rr.chunk # NoBuf
    THEN [rr EXCEPT !.chunk = memcpy(rr.chunk, Cells(msg)), !.len = len]
    ELSE rr

\* storage.c:152-162 and 172-176; ok: malloc succeeded.  After a successful
\* malloc r->msg points to bytes not written yet.
cb_alloc(rr, msg, len, ok) ==
    IF msg # NULL /\ len > 0
    THEN IF ok THEN [rr EXCEPT !.msg = UNINIT]
               ELSE [rr EXCEPT !.msg = NULL, !.len = 0]
    ELSE [rr EXCEPT !.msg = NULL, !.len = 0]

\* Mutant of cb_copy: r->len is not set after the copy.
cb_copy_NoLen(rr, msg, len) == [rr EXCEPT !.msg = msg]

\* storage.c:164-170
cb_copy(rr, msg, len) == [rr EXCEPT !.msg = msg, !.len = len]

\* The whole of one invocation, as it runs when nothing interleaves.
callback(rr, code, msg, len, ok) ==
    LET a == cb_alloc(cb_chunk(cb_free(cb_ret(rr, code)), code, msg, len),
                      msg, len, ok)
    IN  IF a.msg = UNINIT THEN cb_copy(a, msg, len) ELSE a

\* Mutant of HasUserData: userData is not tested.
HasUserData_Always(ud) == TRUE

\* storage.c:123-130: callback goes on only with a userData that is not NULL.
HasUserData(ud) == ud # NULL

\* callback as the library calls it, with the userData it was given
\* (storage.c:121-177); rr is the Resp userData points to, if any.
callback_userData(rr, ud, code, msg, len, ok) ==
    IF HasUserData(ud) THEN callback(rr, code, msg, len, ok) ELSE rr

----------------------------------------------------------------------------
(* The harness thread.                                                     *)

\* Mutant of WaitCond: the retry test off by one.
WaitCond_OffByOne(status, n) == status = PENDING /\ n <= MAX_RETRIES

\* storage.c:67, the loop condition of wait_resp
WaitCond(status, n) == status = PENDING /\ n < MAX_RETRIES

\* Mutant of RespOk: only RET_ERR counts as a failure.
RespOk_NotErr(status) == IF status = RET_ERR THEN RET_ERR ELSE RET_OK

\* storage.c:86
RespOk(status) == IF status = RET_OK THEN RET_OK ELSE RET_ERR

\* Mutant of SetupOk: only RET_ERR counts as a failed construction.
SetupOk_NotErr(status) == IF status = RET_ERR THEN RET_ERR ELSE RET_OK

\* storage.c:220-230, the value setup returns for the status it read
SetupOk(status) == IF status # RET_OK THEN RET_ERR ELSE RET_OK

\* Mutant of GoesOn: the result of is_resp_ok is not tested.
GoesOn_Always(v) == TRUE

\* storage.c:257, 271, 425, 448, 492, 523, 563, 615: a function goes on to its
\* next call only when is_resp_ok returned RET_OK
GoesOn(v) == v = RET_OK

\* Mutant of MainGoesOn: main ignores what its steps return.
MainGoesOn_Always(v) == TRUE

\* storage.c:796-942: main goes on to its next step only when the step
\* returned RET_OK
MainGoesOn(v) == v = RET_OK

\* The argument a call passes: the local session_id or main's cid.
ArgVal(c) ==
    CASE c.arg = "session_id" -> session_id
      [] c.arg = "cid" -> cid
      [] OTHER -> NULL

\* The record of one API call: what was passed, whether the service accepted
\* it, the terminal status its callback delivered before the Resp was freed
\* (PENDING: none) and the RET_PROGRESS invocations before it, how the wait
\* ended, how the Resp stood when it was freed (at: its status then), and the
\* msg its terminal callback was given (pay), kept for the calls that return
\* a cid, the answer of exists or the debug info.
Pay(op, msg) ==
    IF op \in {"storage_upload_finalize", "storage_upload_file",
               "storage_exists", "storage_debug"}
    THEN msg ELSE NULL

Entry(c, accepted, term, freed) ==
    [op |-> c.op, ctx |-> storage_ctx, arg |-> ArgVal(c), mode |-> c.mode,
     accepted |-> accepted, term |-> term, prog |-> 0, waited |-> "no",
     freed |-> freed, at |-> PENDING, pay |-> NULL]

\* Where the harness goes after a call it takes for accepted.
AfterDispatch(c) == IF c.mode = "nowait" THEN "free" ELSE "poll"

\* What a call returns when the service refuses it: storage_new a NULL handle
\* (0), every other call a code other than RET_OK (libstorage.h:9-11, 34-36).
Refusals(op) ==
    IF op = "storage_new" THEN {0} ELSE {RET_ERR, RET_MISSING_CALLBACK}

\* Mutant of Rejected: only RET_ERR is taken for a refusal.
Rejected_OnlyErr(op, rc) == IF op = "storage_new" THEN rc = 0 ELSE rc = RET_ERR

\* The test every function makes on what its API call returned.
\* storage.c:211 (!ctx), 235, 251, 264, 279, 298, ... (!= RET_OK)
Rejected(op, rc) == IF op = "storage_new" THEN rc = 0 ELSE rc # RET_OK

\* r = alloc_resp(); the service refuses the call; the function tests what the
\* call returned: free_resp(r); return RET_ERR.  storage.c:208-216, 235-241, ...
DispatchRejected ==
    /\ Running /\ pc = "dispatch" /\ Fn # "realpath"
    /\ nalloc' = nalloc + 1
    /\ \E rc \in Refusals(Cur.op) :
        IF Rejected(Cur.op, rc)
        THEN /\ log' = Append(log, Entry(Cur, FALSE, PENDING, "rejected"))
             /\ fret' = RET_ERR
             /\ pc' = "return"
             /\ UNCHANGED r
        ELSE /\ log' = Append(log, Entry(Cur, FALSE, PENDING, "no"))
             /\ r' = alloc_resp(nalloc + 1, Cur.buf)
             /\ pc' = AfterDispatch(Cur)
             /\ UNCHANGED fret
    /\ UNCHANGED << step, k, retries, polls, obs, ret, res, session_id, cid,
                    storage_ctx, mainRet, proc, svars, rets >>

\* r = alloc_resp(); the API call is accepted and returns before any callback.
DispatchAccepted ==
    /\ Running /\ pc = "dispatch" /\ Fn # "realpath"
    /\ Cur.op \notin Synchronous
    /\ nalloc' = nalloc + 1
    /\ r' = alloc_resp(nalloc + 1, Cur.buf)
    /\ log' = Append(log, Entry(Cur, TRUE, PENDING, "no"))
    /\ inflight' = inflight \cup
          {[tok |-> nalloc + 1, op |-> Cur.op, n |-> SessionNo(Fn),
            arg |-> ArgVal(Cur), nprog |-> 0]}
    /\ pc' = AfterDispatch(Cur)
    /\ UNCHANGED << step, k, retries, polls, obs, ret, fret, res, session_id,
                    cid, storage_ctx, mainRet, proc, cb, store, rets >>

\* r = alloc_resp(); the API call is accepted and runs the callback itself,
\* on the caller's thread, before it returns.
DispatchSynchronous ==
    /\ Running /\ pc = "dispatch" /\ Fn # "realpath"
    /\ Cur.op \in Synchronous \cup MaybeSynchronous
    /\ nalloc' = nalloc + 1
    /\ \E code \in {RET_OK, RET_ERR}, ok \in BOOLEAN :
       \E msg \in (IF code = RET_OK THEN OkPayloads(Cur.op, 0) ELSE ErrPayloads) :
        /\ r' = callback(alloc_resp(nalloc + 1, Cur.buf), code, msg,
                         StrLen(msg), ok)
        /\ log' = Append(log, [Entry(Cur, TRUE, code, "no")
                                  EXCEPT !.pay = Pay(Cur.op, msg)])
    /\ pc' = AfterDispatch(Cur)
    /\ UNCHANGED << step, k, retries, polls, obs, ret, fret, res, session_id,
                    cid, storage_ctx, mainRet, proc, svars, rets >>

\* One evaluation of wait_resp's loop condition and, when it holds, one pass
\* of the body (usleep; retries++).  storage.c:63-72
wait_resp ==
    /\ Running /\ pc = "poll"
    /\ polls' = polls + 1
    /\ obs' = get_ret(r)
    /\ IF WaitCond(get_ret(r), retries)
       THEN retries' = retries + 1 /\ pc' = "poll"
       ELSE retries' = retries /\ pc' = "read_ret"
    /\ UNCHANGED << step, k, r, ret, fret, res, session_id, cid, storage_ctx,
                    mainRet, proc, svars, nalloc, log, rets >>

\* How a wait that made n passes of the loop body ended.
Waited(n) == IF n = MAX_RETRIES THEN "exhausted" ELSE "observed"

\* storage.c:86 (is_resp_ok) and storage.c:220 (setup): the read of r->ret
\* after wait_resp returned (its locals are gone).
ReadRet ==
    /\ Running /\ pc = "read_ret"
    /\ ret' = IF Cur.mode = "wait" THEN SetupOk(r.ret) ELSE RespOk(r.ret)
    /\ obs' = r.ret
    /\ retries' = 0 /\ polls' = 0
    /\ log' = [log EXCEPT ![k].waited = Waited(retries)]
    /\ pc' = IF Cur.mode = "wait" THEN "free" ELSE "read_res"
    /\ UNCHANGED << step, k, r, fret, res, session_id, cid, storage_ctx,
                    mainRet, proc, svars, nalloc, rets >>

\* What strdup returns for the bytes at p.
Strdup(p) == IF p = UNINIT THEN Garbage ELSE {p}

\* The blocks of buf written so far, from its start up to the first block
\* not written.
RECURSIVE Written(_)
Written(buf) ==
    IF buf = << >> \/ Head(buf) = UNINIT THEN << >>
    ELSE << Head(buf) >> \o Written(Tail(buf))

RECURSIVE Join(_)
Join(cells) == IF cells = << >> THEN "" ELSE Head(cells) \o Join(Tail(cells))

\* What strdup returns for a progress buffer: callback writes no terminator
\* into it (storage.c:147), so the string runs from the start of the buffer
\* over the bytes written and on through bytes not written, until a NUL.
StrdupBuf(buf) ==
    IF Written(buf) = << >> THEN Garbage
    ELSE {Join(Written(buf)), Join(Written(buf)) \o STRAY}

\* storage.c:89-104: *res = NULL, then the copy of r->chunk or of r->msg.
ResValues(rr, c) ==
    IF c.out = NULL THEN {NULL}
    ELSE IF rr.chunk # NoBuf THEN StrdupBuf(rr.chunk)
    ELSE IF rr.msg # NULL THEN Strdup(rr.msg)
    ELSE {NULL}

ReadRes ==
    /\ Running /\ pc = "read_res"
    /\ \E v \in ResValues(r, Cur) :
        /\ res' = IF Cur.out = "res" THEN v ELSE res
        /\ session_id' = IF Cur.out = "session_id" THEN v ELSE session_id
        /\ cid' = IF Cur.out = "cid" THEN v ELSE cid
    /\ pc' = "free"
    /\ UNCHANGED << step, k, r, retries, polls, obs, ret, fret, storage_ctx,
                    mainRet, proc, svars, nalloc, log, rets >>

\* How the Resp stood when it was freed: its terminal callback had been
\* invoked, or the wait had spent its retries, or neither.
FreedAs(e) ==
    IF e.term # PENDING THEN "terminal"
    ELSE IF e.waited = "exhausted" THEN "exhausted"
    ELSE "early"

\* Mutant of AfterCall: the download functions do not test what is_resp_ok
\* returned for storage_download_init.
AfterCall_DownloadUnchecked(f, i, v) ==
    IF i = Len(Calls(f)) THEN "check"
    ELSE IF f \in {"check_download_stream", "check_download_chunk"}
    THEN "dispatch"
    ELSE IF ~GoesOn(v) THEN "return"
    ELSE IF f = "check_upload_chunk" /\ i = 1 THEN "malloc"
    ELSE "dispatch"

\* Mutant of AfterCall: a function calls free_resp(r) once more when
\* is_resp_ok reported a failure.
AfterCall_FreeAgain(f, i, v) ==
    IF i = Len(Calls(f)) THEN "check"
    ELSE IF ~GoesOn(v) THEN "free"
    ELSE IF f = "check_upload_chunk" /\ i = 1 THEN "malloc"
    ELSE "dispatch"

\* Where a function goes after is_resp_ok returned v for its i-th call.
AfterCall(f, i, v) ==
    IF i = Len(Calls(f)) THEN "check"
    ELSE IF ~GoesOn(v) THEN "return"
    ELSE IF f = "check_upload_chunk" /\ i = 1 THEN "malloc"
    ELSE "dispatch"

\* free_resp(r) (storage.c:30-48) at the end of is_resp_ok (106), of setup
\* (222, 228), of cleanup (286) and of check_version (304), and the return to
\* the calling function.
FreeResp ==
    /\ Running /\ pc = "free"
    /\ log' = [log EXCEPT ![k].freed = FreedAs(log[k]), ![k].at = r.ret]
    /\ r' = NoResp
    /\ cb' = IF cb.tok = r.id THEN Dangling ELSE cb
    /\ obs' = PENDING
    /\ CASE Cur.mode = "nowait" ->
              /\ fret' = RET_OK /\ pc' = "return"
              /\ UNCHANGED << k, storage_ctx >>
         [] Cur.mode = "wait" ->
              /\ fret' = ret /\ pc' = "return"
              /\ storage_ctx' = IF ret = RET_OK THEN CTX ELSE storage_ctx
              /\ UNCHANGED k
         [] OTHER ->
              /\ pc' = AfterCall(Fn, k, ret)
              /\ fret' = IF pc' = "return" THEN RET_ERR ELSE fret
              /\ k' = IF pc' = "dispatch" THEN k + 1 ELSE k
              /\ UNCHANGED storage_ctx
    /\ UNCHANGED << step, retries, polls, ret, res, session_id, cid, mainRet,
                    proc, inflight, store, nalloc, rets >>

\* storage.c:430-436: uint8_t *chunk = malloc(chunk_size), which may fail.
MallocChunk ==
    /\ Running /\ pc = "malloc"
    /\ \/ pc' = "dispatch" /\ k' = k + 1 /\ fret' = fret
       \/ pc' = "return" /\ k' = k /\ fret' = RET_ERR
    /\ UNCHANGED << step, r, retries, polls, obs, ret, res, session_id, cid,
                    storage_ctx, mainRet, proc, svars, nalloc, log, rets >>

\* The functions that return is_resp_ok's value as it is.  storage.c:243, 393,
\* 408, 508, 652, 777
ReturnsRet ==
    {"start", "check_peer_id", "update_log_level", "upload_cancel",
     "check_download_cancel", "check_delete"}

\* The functions that hand res to strcmp, strstr or strncmp without a NULL
\* test.  storage.c:322, 347, 371, 579, 631, 670, 696, 721, 747, 755
ChecksString ==
    {"check_repo", "check_debug", "check_spr", "check_download_stream",
     "check_download_chunk", "check_download_manifest", "check_list",
     "check_space", "check_exists_true", "check_exists_false"}

\* Mutant of Passes: check_exists does not compare the answer.
Passes_ExistsAny(f, v) ==
    CASE f = "check_repo" -> v = "./data-dir"
      [] f \in {"check_debug", "check_spr"} -> v \in {"{spr}", "spr"}
      [] f \in {"check_download_stream", "check_download_chunk"} ->
             v \in {"Hello World!", "Hello World!" \o STRAY}
      [] f = "check_download_manifest" -> v = "manifest"
      [] f = "check_list" -> v \in {"[manifest]", "manifest"}
      [] f = "check_space" -> v = "{totalBlocks}"
      [] OTHER -> TRUE

\* Whether the string v passes the function's comparison.
Passes(f, v) ==
    CASE f = "check_repo" -> v = "./data-dir"
      [] f \in {"check_debug", "check_spr"} -> v \in {"{spr}", "spr"}
      [] f \in {"check_download_stream", "check_download_chunk"} ->
             v \in {"Hello World!", "Hello World!" \o STRAY}
      [] f = "check_download_manifest" -> v = "manifest"
      [] f = "check_list" -> v \in {"[manifest]", "manifest"}
      [] f = "check_space" -> v = "{totalBlocks}"
      [] f = "check_exists_true" -> v = "true"
      [] f = "check_exists_false" -> v = "false"
      [] OTHER -> TRUE

\* The pointer the function dereferences after its last is_resp_ok.
Checked(f) == IF f = "check_upload_file" THEN cid ELSE res

\* A NULL pointer handed to strcmp, strstr, strncmp or strlen.
\* storage.c:541 tests res, the char **, and then reads *res.
Crashes(f) ==
    /\ f \in ChecksString \cup {"check_upload_file"}
    /\ Checked(f) = NULL

\* The value the function returns after its last is_resp_ok returned v;
\* fileOk: read_file succeeded and the file holds the expected content
\* (storage.c:585-595).
FinalRet(f, v, fileOk) ==
    CASE f \in ReturnsRet -> v
      [] f = "check_upload_chunk" ->
             IF res = NULL \/ res = "" THEN RET_ERR ELSE v
      [] f = "check_upload_file" -> IF cid = "" THEN RET_ERR ELSE v
      [] f = "check_download_stream" ->
             IF Passes(f, res) /\ fileOk THEN v ELSE RET_ERR
      [] OTHER -> IF Passes(f, res) THEN v ELSE RET_ERR

\* The statements of a function after its last is_resp_ok.
Check ==
    /\ Running /\ pc = "check"
    /\ IF Crashes(Fn)
       THEN /\ proc' = "crashed"
            /\ UNCHANGED << fret, pc >>
       ELSE /\ \E fileOk \in (IF Fn = "check_download_stream"
                              THEN BOOLEAN ELSE {TRUE}) :
                 fret' = FinalRet(Fn, ret, fileOk)
            /\ pc' = "return"
            /\ UNCHANGED proc
    /\ UNCHANGED << step, k, r, retries, polls, obs, ret, res, session_id, cid,
                    storage_ctx, mainRet, svars, nalloc, log, rets >>

\* Mutant of Return: main runs a step that returned RET_ERR once more.
Return_Retries ==
    /\ Running /\ pc = "return"
    /\ rets' = Append(rets, fret)
    /\ IF ~MainGoesOn(fret)
       THEN /\ k' = 1 /\ pc' = "dispatch" /\ log' = << >>
            /\ UNCHANGED << step, mainRet, proc >>
       ELSE IF step = Len(main)
       THEN /\ mainRet' = RET_OK /\ proc' = "exited"
            /\ UNCHANGED << step, k, pc, log >>
       ELSE /\ step' = step + 1 /\ k' = 1 /\ pc' = "dispatch"
            /\ log' = << >>
            /\ UNCHANGED << mainRet, proc >>
    /\ ret' = PENDING /\ fret' = PENDING
    /\ res' = NULL /\ session_id' = NULL
    /\ UNCHANGED << r, retries, polls, obs, cid, storage_ctx, svars, nalloc >>

\* The function returns to main, which returns RET_ERR or goes on to its next
\* step.  storage.c:796-944
Return ==
    /\ Running /\ pc = "return"
    /\ rets' = Append(rets, fret)
    /\ IF ~MainGoesOn(fret)
       THEN /\ mainRet' = RET_ERR /\ proc' = "exited"
            /\ UNCHANGED << step, k, pc, log >>
       ELSE IF step = Len(main)
       THEN /\ mainRet' = RET_OK /\ proc' = "exited"
            /\ UNCHANGED << step, k, pc, log >>
       ELSE /\ step' = step + 1 /\ k' = 1 /\ pc' = "dispatch"
            /\ log' = << >>
            /\ UNCHANGED << mainRet, proc >>
    /\ ret' = PENDING /\ fret' = PENDING
    /\ res' = NULL /\ session_id' = NULL
    /\ UNCHANGED << r, retries, polls, obs, cid, storage_ctx, svars, nalloc >>

\* storage.c:850-856
realpath ==
    /\ Running /\ pc = "dispatch" /\ Fn = "realpath"
    /\ \/ mainRet' = RET_ERR /\ proc' = "exited" /\ UNCHANGED step
       \/ step' = step + 1 /\ UNCHANGED << mainRet, proc >>
    /\ UNCHANGED << k, pc, r, retries, polls, obs, ret, fret, res, session_id,
                    cid, storage_ctx, svars, nalloc, log, rets >>

----------------------------------------------------------------------------
(* The service thread.                                                     *)

\* The Resp an invocation was given is still the one the harness holds.
Live(tok) == r.id = tok

\* The entry of log that records the call with token tok, if log holds it.
LogIdx(tok) == IF Live(tok) /\ k <= Len(log) THEN {k} ELSE {}

\* The first statement group of callback after line 133 that does anything for
\* this Resp and these arguments: 136-141, 145-149, else 152-176.
CbFirst(rr, code, msg) ==
    IF rr.msg # NULL THEN "free"
    ELSE IF code = RET_PROGRESS /\ msg # NULL /\ rr.chunk # NoBuf THEN "chunk"
    ELSE "alloc"

\* The invocation that starts on the Resp with token tok.
Invocation(tok, code, msg) ==
    IF Live(tok)
    THEN [tok |-> tok, ret |-> code, msg |-> msg, pc |-> CbFirst(r, code, msg)]
    ELSE Dangling

\* The service invokes callback with RET_PROGRESS for a streaming call
\* (libstorage.h:18-20); storage.c:123-133 run.
CallbackProgress ==
    /\ Running /\ cb = NoCb
    /\ \E e \in inflight, msg \in ProgressPayloads :
        /\ e.op \in Streaming /\ e.nprog < MaxProgress
        /\ inflight' = (inflight \ {e}) \cup {[e EXCEPT !.nprog = e.nprog + 1]}
        /\ cb' = Invocation(e.tok, RET_PROGRESS, msg)
        /\ r' = IF Live(e.tok) THEN cb_ret(r, RET_PROGRESS) ELSE r
        /\ log' = [i \in DOMAIN log |->
                     IF i \in LogIdx(e.tok)
                     THEN [log[i] EXCEPT !.prog = e.nprog + 1]
                     ELSE log[i]]
    /\ UNCHANGED << step, k, pc, retries, polls, obs, ret, fret, res,
                    session_id, cid, storage_ctx, mainRet, proc, store, nalloc,
                    rets >>

\* The service invokes callback with the terminal RET_OK or RET_ERR
\* (libstorage.h:13-16); storage.c:123-133 run.
CallbackTerminal ==
    /\ Running /\ cb = NoCb
    /\ \E e \in inflight, code \in {RET_OK, RET_ERR} :
       \E msg \in (IF code = RET_OK THEN Answers(e) ELSE ErrPayloads) :
        /\ inflight' = inflight \ {e}
        /\ store' = StoreAfter(e, code)
        /\ cb' = Invocation(e.tok, code, msg)
        /\ r' = IF Live(e.tok) THEN cb_ret(r, code) ELSE r
        /\ log' = [i \in DOMAIN log |->
                     IF i \in LogIdx(e.tok)
                     THEN [log[i] EXCEPT !.term = code, !.pay = Pay(e.op, msg)]
                     ELSE log[i]]
    /\ UNCHANGED << step, k, pc, retries, polls, obs, ret, fret, res,
                    session_id, cid, storage_ctx, mainRet, proc, nalloc, rets >>

\* storage.c:136-141
CallbackFree ==
    /\ Running /\ cb.pc = "free"
    /\ r' = cb_free(r)
    /\ cb' = [cb EXCEPT !.pc = IF cb.ret = RET_PROGRESS /\ cb.msg # NULL
                                  /\ r.chunk # NoBuf
                               THEN "chunk" ELSE "alloc"]
    /\ UNCHANGED << step, k, pc, retries, polls, obs, ret, fret, res,
                    session_id, cid, storage_ctx, mainRet, proc, inflight, store,
                    nalloc, log, rets >>

\* storage.c:145-149
CallbackChunk ==
    /\ Running /\ cb.pc = "chunk"
    /\ r' = cb_chunk(r, cb.ret, cb.msg, StrLen(cb.msg))
    /\ cb' = [cb EXCEPT !.pc = "alloc"]
    /\ UNCHANGED << step, k, pc, retries, polls, obs, ret, fret, res,
                    session_id, cid, storage_ctx, mainRet, proc, inflight, store,
                    nalloc, log, rets >>

\* storage.c:152-162, 172-176: the malloc (which may fail) or the else branch.
CallbackAlloc ==
    /\ Running /\ cb.pc = "alloc"
    /\ \E ok \in (IF cb.msg # NULL THEN BOOLEAN ELSE {TRUE}) :
        /\ r' = cb_alloc(r, cb.msg, StrLen(cb.msg), ok)
        /\ cb' = IF cb.msg # NULL /\ StrLen(cb.msg) > 0 /\ ok
                 THEN [cb EXCEPT !.pc = "copy"]
                 ELSE NoCb
    /\ UNCHANGED << step, k, pc, retries, polls, obs, ret, fret, res,
                    session_id, cid, storage_ctx, mainRet, proc, inflight, store,
                    nalloc, log, rets >>

\* storage.c:164-170, and the return
CallbackCopy ==
    /\ Running /\ cb.pc = "copy"
    /\ r' = cb_copy(r, cb.msg, StrLen(cb.msg))
    /\ cb' = NoCb
    /\ UNCHANGED << step, k, pc, retries, polls, obs, ret, fret, res,
                    session_id, cid, storage_ctx, mainRet, proc, inflight, store,
                    nalloc, log, rets >>

\* The rest of an invocation whose Resp was freed: storage.c:133-176 run on
\* freed memory.
CallbackDangling ==
    /\ Running /\ cb = Dangling
    /\ cb' = NoCb
    /\ UNCHANGED << hvars, inflight, store, nalloc, log, rets >>

----------------------------------------------------------------------------
Next ==
    \/ DispatchRejected
    \/ DispatchAccepted
    \/ DispatchSynchronous
    \/ wait_resp
    \/ ReadRet
    \/ ReadRes
    \/ FreeResp
    \/ MallocChunk
    \/ Check
    \/ Return
    \/ realpath
    \/ CallbackProgress
    \/ CallbackTerminal
    \/ CallbackFree
    \/ CallbackChunk
    \/ CallbackAlloc
    \/ CallbackCopy
    \/ CallbackDangling

Spec == Init /\ [][Next]_vars

----------------------------------------------------------------------------
(* callback and is_resp_ok on one Resp, with nothing interleaved: a Resp    *)
(* as alloc_resp returns it, with or without a progress buffer, is given to *)
(* any number of callback invocations and then consumed.                    *)

\* What the library may pass as msg.
CbPayloads == {NULL, "", "ok", "error", "Hello World!", BAD}

CbInit ==
    /\ \E buf \in BOOLEAN : r = alloc_resp(1, buf)
    /\ pc = "held" /\ cb = NoCb
    /\ step = 1 /\ k = 1
    /\ retries = 0 /\ polls = 0 /\ obs = PENDING
    /\ ret = PENDING /\ fret = PENDING
    /\ res = NULL /\ session_id = NULL /\ cid = NULL /\ storage_ctx = NULL
    /\ mainRet = PENDING /\ proc = "running"
    /\ inflight = {} /\ store = {}
    /\ nalloc = 1 /\ log = << >> /\ rets = << >>

\* One invocation of callback, run to its end (storage.c:121-177).  cb keeps
\* the arguments, whether malloc succeeded, and the Resp as it was before.
CbInvoke ==
    /\ pc = "held"
    /\ \E ud \in {NULL, "r"}, code \in {RET_OK, RET_ERR, RET_PROGRESS},
          msg \in CbPayloads, ok \in BOOLEAN :
       \E len \in {0, StrLen(msg)} :
        /\ r' = callback_userData(r, ud, code, msg, len, ok)
        /\ cb' = [tok |-> IF ud = NULL THEN 0 ELSE r.id, ret |-> code,
                  msg |-> msg, pc |-> "done", len |-> len, ok |-> ok,
                  was |-> r]
    /\ UNCHANGED << step, k, pc, retries, polls, obs, ret, fret, res,
                    session_id, cid, storage_ctx, mainRet, proc, inflight, store,
                    nalloc, log, rets >>

\* is_resp_ok(r, &res) once the wait is over (storage.c:86-108): ret, *res,
\* free_resp(r).  cb keeps the Resp as it was when it was read.
CbConsume ==
    /\ pc = "held"
    /\ ret' = RespOk(r.ret)
    /\ res' \in ResValues(r, Call("none", "is_resp_ok", "res", FALSE, "none"))
    /\ cb' = [tok |-> cb.tok, ret |-> cb.ret, msg |-> cb.msg,
              pc |-> "consumed", len |-> 0, ok |-> TRUE, was |-> r]
    /\ r' = NoResp
    /\ pc' = "consumed"
    /\ UNCHANGED << step, k, retries, polls, obs, fret, session_id, cid,
                    storage_ctx, mainRet, proc, inflight, store, nalloc, log, rets >>

CbNext == CbInvoke \/ CbConsume

CbSpec == CbInit /\ [][CbNext]_vars

----------------------------------------------------------------------------
(* Claims.                                                                 *)

\* C1 as stated: wait_resp polls the status at most MAX_RETRIES times and then
\* returns, and returns without a further poll once it saw a status other
\* than -1.
C1_AtMostMaxRetriesPolls ==
    /\ polls <= MAX_RETRIES
    /\ (pc = "poll" /\ polls > 0 => obs = PENDING)

\* C1 amended: wait_resp makes at most MAX_RETRIES passes of its loop body and
\* at most MAX_RETRIES + 1 polls of the status (the loop condition reads the
\* status once more after the last sleep) and then returns; it goes round
\* again only after a poll that saw -1, and returns either on a poll that saw
\* another status or with its retries spent.
C1_WaitBounded ==
    /\ retries <= MAX_RETRIES
    /\ polls <= MAX_RETRIES + 1
    /\ (pc = "poll" /\ polls > 0 => obs = PENDING)
    /\ (pc = "poll" => polls = retries)
    /\ (pc = "read_ret" => polls = retries + 1)
    /\ (pc = "read_ret" => obs # PENDING \/ retries = MAX_RETRIES)

\* wait_resp returned with its retries spent and no callback ever invoked.
C1_Witness ==
    /\ pc = "read_ret" /\ retries = MAX_RETRIES /\ obs = PENDING
    /\ log[k].term = PENDING /\ r.ret = PENDING
    /\ \E e \in inflight : e.tok = r.id /\ e.nprog = 0

\* C2: is_resp_ok (and setup's test of r->ret) yields RET_OK exactly when the
\* status read after the wait is RET_OK and RET_ERR otherwise; a call whose
\* wait timed out or whose callback delivered RET_ERR is never passed on as a
\* success, and setup returns RET_OK only for a construction that delivered
\* RET_OK.
C2_OkOnlyOnRetOk ==
    /\ (pc \in {"read_res", "free"} /\ Cur.mode # "nowait" =>
            /\ ret \in {RET_OK, RET_ERR}
            /\ (ret = RET_OK <=> obs = RET_OK))
    /\ (pc \in {"free", "check"} /\ Cur.mode # "nowait" /\ ret = RET_OK =>
            log[k].term = RET_OK)
    /\ (pc = "return" /\ Fn = "setup" /\ fret = RET_OK =>
            log[1].term = RET_OK)
    /\ (pc = "return" /\ Fn \in ReturnsRet /\ fret = RET_OK =>
            log[k].term = RET_OK)

\* is_resp_ok read a status still pending after a wait that spent its retries
\* and reports RET_ERR.
C2_Witness ==
    /\ pc = "free" /\ Cur.mode = "is_resp_ok"
    /\ log[k].waited = "exhausted" /\ obs = PENDING /\ ret = RET_ERR

\* C3: a streaming call for which the service delivered RET_PROGRESS at least
\* once and then its terminal RET_OK, all before the Resp was freed, is
\* reported as a success by is_resp_ok.
C3_StreamingReportsSuccess ==
    (/\ pc = "check" /\ Cur.op \in Streaming
     /\ log[k].accepted /\ log[k].waited = "observed"
     /\ log[k].prog >= 1 /\ log[k].term = RET_OK) => ret = RET_OK

\* C4: a Resp consumed by is_resp_ok is freed only after its terminal callback
\* was delivered or after the wait spent its retries; a RET_PROGRESS status
\* alone never gets it freed.
C4_FreedOnlyAfterTerminalOrTimeout ==
    \A i \in DOMAIN log :
        log[i].mode = "is_resp_ok" /\ log[i].accepted => log[i].freed # "early"

\* C5: when is_resp_ok has seen a status that an invocation of callback wrote
\* and has read the payload, it has read the payload of that invocation, even
\* when the invocation is still running.
C5_ReadsCompletePayload ==
    (/\ pc = "free" /\ Cur.mode = "is_resp_ok" /\ Cur.out = "res"
     /\ Cur.op \notin Streaming /\ obs # PENDING
     /\ cb.tok = r.id) => res = cb.msg

\* C6: no Resp of an accepted call is freed while its status is still pending
\* and no wait has spent its retries on it.
C6_NoFreeWhilePending ==
    \A i \in DOMAIN log :
        log[i].accepted /\ log[i].freed # "no" =>
            ~(log[i].at = PENDING /\ log[i].waited # "exhausted")

\* C7: cleanup calls storage_stop, storage_close and storage_destroy in this
\* order, each only after the call before it was accepted and its callback
\* delivered RET_OK; when stop or close is rejected, fails or times out, no
\* later call is made and cleanup, and main with it, returns RET_ERR.
C7_CleanupOrder ==
    Fn = "cleanup" =>
        /\ \A i \in DOMAIN log :
            /\ i <= Len(cleanup) /\ log[i].op = cleanup[i].op
            /\ i > 1 => /\ log[i - 1].accepted
                        /\ log[i - 1].term = RET_OK
                        /\ log[i - 1].freed = "terminal"
        /\ (Running /\ pc = "return" /\ Len(log) < Len(cleanup) =>
                fret = RET_ERR)
        /\ (proc = "exited" /\ Len(log) < Len(cleanup) => mainRet = RET_ERR)

\* storage_stop's callback delivered RET_ERR: cleanup made no other call and
\* main returned RET_ERR.
C7_Witness ==
    /\ Fn = "cleanup" /\ proc = "exited" /\ mainRet = RET_ERR
    /\ Len(log) = 1 /\ log[1].op = "storage_stop" /\ log[1].term = RET_ERR

\* C8: setup returns RET_OK only for a storage_new that returned a handle and
\* whose callback delivered RET_OK, and only then stores the handle; when
\* setup returns RET_ERR the handle is not stored and main returns without
\* another call; every other call is made on the stored handle.
C8_NoCallWithoutConstruction ==
    /\ (Running /\ Fn = "setup" /\ pc = "return" /\ fret = RET_OK =>
            log[1].accepted /\ log[1].term = RET_OK /\ storage_ctx = CTX)
    /\ (Running /\ Fn = "setup" /\ pc = "return" /\ fret # RET_OK =>
            storage_ctx = NULL)
    /\ (Len(rets) >= 1 /\ rets[1] # RET_OK =>
            /\ proc = "exited" /\ mainRet = RET_ERR
            /\ step = 1 /\ nalloc = 1 /\ storage_ctx = NULL)
    /\ (step > 1 => rets[1] = RET_OK /\ storage_ctx = CTX)
    /\ \A i \in DOMAIN log : log[i].op # "storage_new" => log[i].ctx = CTX

\* storage_new returned a handle, its callback delivered RET_ERR, and main
\* returned RET_ERR with no handle stored and no other call made.
C8_Witness ==
    /\ proc = "exited" /\ mainRet = RET_ERR /\ step = 1
    /\ log[1].accepted /\ log[1].term = RET_ERR
    /\ storage_ctx = NULL /\ nalloc = 1

\* C9: at most one call is in flight at any time, and whenever the harness is
\* about to make a call, no earlier call still awaits its terminal callback.
C9_NeverPipelined ==
    /\ Cardinality(inflight) <= 1
    /\ (pc = "dispatch" => inflight = {})

\* cleanup is about to call storage_destroy after stop and close completed.
C9_Witness ==
    /\ Fn = "cleanup" /\ pc = "dispatch" /\ k = 3
    /\ log[1].term = RET_OK /\ log[2].term = RET_OK /\ inflight = {}

\* C10: check_upload_chunk calls storage_upload_init, storage_upload_chunk and
\* storage_upload_finalize in this order, each only after the call before it
\* delivered RET_OK; chunk and finalize pass the session id that init's
\* callback returned; when a call is rejected, fails or times out, no later
\* call is made and the function returns RET_ERR.
C10_ChunkedUploadOrder ==
    Fn = "check_upload_chunk" =>
        /\ \A i \in DOMAIN log :
            /\ i <= Len(check_upload_chunk)
            /\ log[i].op = check_upload_chunk[i].op
            /\ i > 1 => /\ log[i - 1].accepted
                        /\ log[i - 1].term = RET_OK
                        /\ log[i].arg = Sid(SessionNo("check_upload_chunk"))
        /\ (Running /\ pc = "return" /\ Len(log) < Len(check_upload_chunk) =>
                fret = RET_ERR)

\* C11: every function that opens an upload session makes at most one
\* session-ending call (finalize, cancel or upload_file) for it, as its last
\* call; the session id is passed only to calls of the function whose
\* storage_upload_init opened the session, and to none after the ending call.
C11_OneEndingPerSession ==
    \A i \in DOMAIN log :
        /\ log[i].op \in SessionEnding =>
              /\ i = Len(log)
              /\ log[1].op = "storage_upload_init"
              /\ \A j \in 1..(i - 1) : log[j].op \notin SessionEnding
        /\ Calls(Fn)[i].arg = "session_id" =>
              /\ log[1].op = "storage_upload_init" /\ i > 1
              /\ \A j \in 2..(i - 1) : log[j].op \notin SessionEnding

\* upload_cancel's storage_upload_cancel was accepted with the id of the
\* session upload_cancel opened, and upload_cancel is about to return.
C11_Witness ==
    /\ Running /\ Fn = "upload_cancel" /\ pc = "return" /\ Len(log) = 2
    /\ log[2].op = "storage_upload_cancel" /\ log[2].accepted
    /\ log[2].arg = Sid(SessionNo("upload_cancel"))

\* The last call of the function being run has been made and is_resp_ok
\* reported its terminal RET_OK.
LastCallOk ==
    /\ Len(log) = Len(Calls(Fn)) /\ k = Len(log)
    /\ log[k].term = RET_OK /\ ret = RET_OK

\* C12: when storage_upload_finalize (check_upload_chunk) or
\* storage_upload_file (check_upload_file) delivers RET_OK with an empty or
\* missing cid, and is_resp_ok hands that cid on, the function does not crash
\* and returns RET_ERR.
C12_EmptyCidIsError ==
    (/\ Running \/ proc = "crashed"
     /\ Fn \in {"check_upload_chunk", "check_upload_file"}
     /\ pc \in {"check", "return"}
     /\ LastCallOk /\ log[k].pay \in {NULL, ""}
     /\ Checked(Fn) = log[k].pay) =>
        /\ proc # "crashed"
        /\ (pc = "return" => fret = RET_ERR)

\* C13: check_download_stream and check_download_chunk call
\* storage_download_stream / storage_download_chunk only after
\* storage_download_init was accepted and delivered RET_OK; when it is
\* rejected, fails or times out they make no other call and return RET_ERR.
C13_DownloadInitShortCircuits ==
    Fn \in {"check_download_stream", "check_download_chunk"} =>
        /\ log # << >> => log[1].op = "storage_download_init"
        /\ (Len(log) > 1 =>
                /\ log[1].accepted /\ log[1].term = RET_OK
                /\ log[1].freed = "terminal"
                /\ log[2].op \in {"storage_download_stream",
                                  "storage_download_chunk"})
        /\ (Running /\ pc = "return" /\ Len(log) = 1 => fret = RET_ERR)

\* check_download_chunk's storage_download_init timed out: no other call was
\* made and the function is about to return RET_ERR.
C13_Witness ==
    /\ Running /\ Fn = "check_download_chunk" /\ pc = "return"
    /\ Len(log) = 1 /\ log[1].accepted /\ log[1].waited = "exhausted"
    /\ log[1].term = PENDING /\ fret = RET_ERR

\* A call that failed: rejected, terminal RET_ERR, or no callback within the
\* retries of its wait.
Failed(e) ==
    \/ ~e.accepted
    \/ e.term = RET_ERR
    \/ e.term = PENDING /\ e.waited = "exhausted"

\* C14: whenever a call of a function failed (rejected, terminal RET_ERR with
\* or without a message, or timed out), the function does not crash and
\* returns RET_ERR.
C14_FailuresReturned ==
    (\E i \in DOMAIN log : Failed(log[i])) =>
        /\ proc # "crashed"
        /\ (Running /\ pc = "return" => fret = RET_ERR)

\* An invocation of callback with a userData that is not NULL has just run.
Invoked == cb.pc = "done" /\ cb.tok # 0

\* C15: an invocation of callback with userData NULL leaves the Resp (status,
\* msg, chunk, len) as it was.
C15_NullUserDataNoOp ==
    (cb.pc = "done" /\ cb.tok = 0) => r = cb.was

\* callback(RET_ERR, "error", 5, NULL) ran while a Resp held RET_OK and "ok".
C15_Witness ==
    /\ cb.pc = "done" /\ cb.tok = 0 /\ cb.ret = RET_ERR /\ cb.msg = "error"
    /\ cb.len > 0 /\ r.ret = RET_OK /\ r.msg = "ok"

\* C16: with a result pointer, is_resp_ok yields a copy of the progress data
\* when a progress chunk was received into the attached buffer, else a copy
\* of the message, else NULL; the Resp is freed.
C16_ResIsChunkElseMsg ==
    pc = "consumed" =>
        /\ r = NoResp
        /\ res = IF Written(cb.was.chunk) # << >>
                 THEN Join(Written(cb.was.chunk))
                 ELSE cb.was.msg

\* C18 as stated: after an invocation the status is the code delivered; the
\* message slot holds the bytes of this invocation with r->len == len when
\* msg is not NULL and len > 0, and is NULL with r->len == 0 otherwise; the
\* same invocation again leaves the same state.
C18_MsgIsThisInvocation ==
    Invoked =>
        /\ r.ret = cb.ret
        /\ IF cb.msg # NULL /\ cb.len > 0
           THEN r.msg = cb.msg /\ r.len = cb.len
           ELSE r.msg = NULL /\ r.len = 0
        /\ callback_userData(r, "r", cb.ret, cb.msg, cb.len, cb.ok) = r

\* C18 amended: as C18, with the message slot NULL and r->len == 0 also when
\* the allocation of the copy failed.
C18_MsgIsThisInvocationUnlessNoMem ==
    Invoked =>
        /\ r.ret = cb.ret
        /\ IF cb.msg # NULL /\ cb.len > 0 /\ cb.ok
           THEN r.msg = cb.msg /\ r.len = cb.len
           ELSE r.msg = NULL /\ r.len = 0
        /\ callback_userData(r, "r", cb.ret, cb.msg, cb.len, cb.ok) = r

\* callback(RET_ERR, NULL, 0, r) ran on a Resp that held the message "ok":
\* the message is gone.
C18_Witness ==
    /\ Invoked /\ cb.was.msg = "ok" /\ cb.ret = RET_ERR /\ cb.msg = NULL
    /\ r.msg = NULL /\ r.ret = RET_ERR

\* C19: callback writes the progress buffer only for RET_PROGRESS with msg not
\* NULL, len > 0 and a buffer attached; it then overwrites the first len bytes
\* with the chunk and leaves the rest as it was; any other invocation leaves
\* the buffer as it was.
C19_ChunkOnlyOnProgress ==
    Invoked =>
        IF /\ cb.ret = RET_PROGRESS /\ cb.msg # NULL /\ cb.len > 0
           /\ cb.was.chunk # NoBuf
        THEN /\ DOMAIN r.chunk = DOMAIN cb.was.chunk
             /\ \A i \in DOMAIN r.chunk :
                    r.chunk[i] = IF i <= Len(Cells(cb.msg))
                                 THEN Cells(cb.msg)[i]
                                 ELSE cb.was.chunk[i]
        ELSE r.chunk = cb.was.chunk

\* A chunk shorter than the one before it was copied over its start, and the
\* terminal RET_OK that followed left the buffer alone.
C19_Witness ==
    /\ Invoked /\ cb.ret = RET_OK /\ cb.msg = "ok"
    /\ cb.was.chunk = << BAD, "World!" >> /\ r.chunk = << BAD, "World!" >>

\* The cid that storage_upload_file returned to check_upload_file.
TheCid == Good("storage_upload_file", SessionNo("check_upload_file"))

C20_StatusWrittenOnlyByCallback ==
    [][/\ (r.id # 0 /\ r'.id = r.id) =>
              /\ (r'.ret # r.ret =>
                      /\ cb = NoCb /\ cb'.tok = r.id /\ cb'.ret = r'.ret
                      /\ pc' = pc /\ retries' = retries /\ ret' = ret)
              /\ (r.ret # PENDING => r'.ret # PENDING)
       /\ (r'.id # 0 /\ r'.id # r.id) =>
              \/ r'.ret = PENDING
              \/ Cur.op \in Synchronous \cup MaybeSynchronous]_vars

\* is_resp_ok has read RET_OK from a Resp whose status went from pending to
\* RET_PROGRESS to RET_OK.
C20_Witness ==
    /\ r.id # 0 /\ pc = "read_res" /\ r.ret = RET_OK /\ obs = RET_OK
    /\ log[k].prog >= 1 /\ log[k].term = RET_OK

\* The session the function opened has been ended on the service: a finalize,
\* cancel or upload_file for it was accepted.  The service ends a session on
\* no other call, and a rejected call starts no work.
SessionEnded(l) ==
    \E j \in DOMAIN l : l[j].op \in SessionEnding /\ l[j].accepted

\* C21: when a function has opened an upload session (storage_upload_init
\* delivered RET_OK and the function holds the session id) and a later call
\* of it was rejected, failed or timed out,
\* the function has ended the session on the service (cancel, or the failed
\* finalize itself) by the time it returns.
C21_FailedSessionIsEnded ==
    (/\ Running /\ pc = "return" /\ log # << >>
     /\ log[1].op = "storage_upload_init" /\ log[1].term = RET_OK
     /\ session_id = Sid(SessionNo(Fn))
     /\ \E i \in 2..Len(log) : Failed(log[i])) => SessionEnded(log)

\* The session ids the service hands out.
SessionIds == {Sid(n) : n \in 1..3}

\* The calls of the manual-chunk path.
ManualPath == {"storage_upload_chunk", "storage_upload_finalize"}

\* The session ids passed so far, in the function being run, to the calls ops.
IdsPassedTo(ops) ==
    {log[i].arg : i \in {j \in DOMAIN log : log[j].op \in ops}} \cap SessionIds

\* C22: the only session id ever passed to storage_upload_chunk or
\* storage_upload_finalize is the id of the session check_upload_chunk opened,
\* the only one ever passed to storage_upload_file is the id of the session
\* check_upload_file opened, and these are two sessions: no id goes to both
\* paths.
C22_PathsExclusive ==
    /\ IdsPassedTo(ManualPath) \subseteq {Sid(SessionNo("check_upload_chunk"))}
    /\ IdsPassedTo({"storage_upload_file"})
           \subseteq {Sid(SessionNo("check_upload_file"))}
    /\ Sid(SessionNo("check_upload_chunk")) # Sid(SessionNo("check_upload_file"))
    /\ IdsPassedTo(ManualPath) \cap IdsPassedTo({"storage_upload_file"}) = {}

\* After check_upload_chunk finalized its session, check_upload_file passed
\* the id of its own session to storage_upload_file, which accepted it.
C22_Witness ==
    /\ Fn = "check_upload_file" /\ Len(log) = 2 /\ log[2].accepted
    /\ log[2].op = "storage_upload_file"
    /\ log[2].arg = Sid(SessionNo("check_upload_file"))
    /\ Len(rets) >= 8 /\ rets[8] = RET_OK

\* C23: a call the service refused is the last call of its function: the
\* function is at its return with RET_ERR (main then returns RET_ERR), the
\* Resp allocated for the call was freed at once, unpolled and unread, no Resp
\* is held, and no callback runs or is due for it.
C23_RejectedReturnsAtOnce ==
    \A i \in DOMAIN log :
        ~log[i].accepted =>
            /\ i = Len(log) /\ pc = "return"
            /\ (Running => fret = RET_ERR)
            /\ (proc = "exited" => mainRet = RET_ERR)
            /\ proc # "crashed"
            /\ log[i].freed = "rejected" /\ log[i].waited = "no"
            /\ log[i].term = PENDING /\ log[i].at = PENDING
            /\ r = NoResp /\ polls = 0 /\ retries = 0
            /\ inflight = {} /\ cb.tok = 0

\* storage_delete was refused: check_delete is about to return RET_ERR, and
\* the Resp it had allocated is gone.
C23_Witness ==
    /\ Running /\ Fn = "check_delete" /\ pc = "return" /\ fret = RET_ERR
    /\ Len(log) = 1 /\ ~log[1].accepted /\ log[1].freed = "rejected"
    /\ r = NoResp

\* The payload the function checks fails the check: a cid missing or empty,
\* or a string without what the function looks for.
ShapeFails(f) ==
    CASE f = "check_upload_chunk" -> res \in {NULL, ""}
      [] f = "check_upload_file" -> cid \in {NULL, ""}
      [] OTHER -> ~Passes(f, res)

\* The values function f returns when is_resp_ok reports a failure of the
\* service (a terminal RET_ERR).
FailureResults(f) == {FinalRet(f, RET_ERR, fileOk) : fileOk \in BOOLEAN}

\* C24: when the last call of a function delivered RET_OK with a payload that
\* fails the function's shape check, and the function read that payload, the
\* value the function returns is none of the values it returns for a failure
\* of the service.
C24_ViolationDistinctFromFailure ==
    (/\ Running /\ pc = "return"
     /\ Fn \in {"check_upload_chunk", "check_upload_file", "check_debug",
                "check_exists_true", "check_exists_false"}
     /\ LastCallOk /\ Checked(Fn) = log[k].pay
     /\ ShapeFails(Fn)) => fret \notin FailureResults(Fn)

\* The positions of the harness thread between alloc_resp and free_resp.
HoldsResp == pc \in {"poll", "read_ret", "read_res", "free"}

\* C25: the harness holds a Resp exactly from its allocation to its one
\* free_resp: while it polls, reads or is about to free, the Resp is the one
\* allocated last and not freed yet; everywhere else (before a call, at a
\* function's checks, at its return, after main returned or crashed) no Resp
\* is held and every Resp the function allocated has been freed; one Resp is
\* allocated per call.
C25_EveryRespFreedOnce ==
    /\ (Running /\ HoldsResp =>
            /\ r.id # 0 /\ r.id = nalloc
            /\ k = Len(log) /\ log[k].freed = "no")
    /\ (~(Running /\ HoldsResp) =>
            /\ r = NoResp
            /\ \A i \in DOMAIN log : log[i].freed # "no")
    /\ \A i \in DOMAIN log : i < Len(log) => log[i].freed # "no"
    /\ Len(log) <= Len(Calls(Fn))
    /\ Len(log) <= nalloc

\* check_upload_chunk is about to return RET_OK: it allocated three Resps and
\* each was freed once its terminal callback had been delivered.
C25_Witness ==
    /\ Running /\ Fn = "check_upload_chunk" /\ pc = "return" /\ fret = RET_OK
    /\ Len(log) = 3 /\ r = NoResp
    /\ \A i \in 1..3 : log[i].freed = "terminal"

\* C26: no invocation of callback runs on a Resp the harness has freed,
\* neither one that starts after the free nor one the free overtakes.
C26_NoCallbackOnFreedResp == cb.pc # "dangling"

\* The order of a run as C27 states it: the calls a step may start with, step
\* by step (the third upload step is the libc call between the uploads).
C27_Order ==
    LET queries == {"storage_repo", "storage_debug", "storage_spr",
                    "storage_peer_id"}
        uploads == {"storage_upload_init"}
        downloads == {"storage_download_init", "storage_download_cancel"}
        info == {"storage_download_manifest", "storage_list", "storage_space"}
    IN  << {"storage_new"}, {"storage_version"}, {"storage_start"},
           queries, queries, queries, queries,
           uploads, uploads, {}, uploads,
           downloads, downloads, downloads,
           info, info, info,
           {"storage_exists"}, {"storage_delete"}, {"storage_exists"},
           {"storage_log_level"}, {"storage_stop"} >>

\* CallsBefore[n]: the calls made by the first n steps of main when each
\* returned RET_OK.
CallsBefore ==
    [n \in 0..Len(main) |->
        Cardinality(UNION {{<< i, j >> : j \in DOMAIN Calls(main[i])} :
                           i \in 1..n})]

\* ReturnedBefore[n]: the steps before the n-th that return a value to main
\* (the libc call returns none).
ReturnedBefore ==
    [n \in DOMAIN main |->
        Cardinality({i \in 1..(n - 1) : Calls(main[i]) # << >>})]

\* The steps before the current one that returned a value to main.
StepsReturned == ReturnedBefore[step]

\* C27: the steps run in the stated order, each once: the calls made so far
\* are all the calls of the earlier steps, each made once, and the calls of
\* the current step in its order; every step before the last one run returned
\* RET_OK; once a step returned another value main has returned RET_ERR with
\* that step as its last; main returned RET_OK only after every step returned
\* RET_OK.
C27_FailFastNoRetry ==
    /\ step \in DOMAIN main /\ Len(C27_Order) = Len(main)
    /\ \A i \in DOMAIN log :
        /\ i <= Len(Calls(Fn)) /\ log[i].op = Calls(Fn)[i].op
        /\ log[1].op \in C27_Order[step]
    /\ nalloc = CallsBefore[step - 1] + Len(log)
    /\ \A i \in DOMAIN rets : i < Len(rets) => rets[i] = RET_OK
    /\ (proc # "exited" =>
            /\ mainRet = PENDING
            /\ Len(rets) = StepsReturned
            /\ \A i \in DOMAIN rets : rets[i] = RET_OK)
    /\ (proc = "exited" =>
            /\ mainRet \in {RET_OK, RET_ERR}
            /\ (mainRet = RET_OK =>
                    /\ step = Len(main) /\ Len(rets) = StepsReturned + 1
                    /\ \A i \in DOMAIN rets : rets[i] = RET_OK)
            /\ (mainRet = RET_ERR =>
                    \/ /\ Len(rets) = StepsReturned + 1
                       /\ rets[Len(rets)] # RET_OK
                    \/ Fn = "realpath" /\ Len(rets) = StepsReturned))

\* check_delete returned RET_ERR after eighteen steps returned RET_OK: main
\* returned RET_ERR without running check_exists, update_log_level or cleanup.
C27_Witness ==
    /\ proc = "exited" /\ mainRet = RET_ERR /\ Fn = "check_delete"
    /\ Len(rets) = StepsReturned + 1 /\ rets[Len(rets)] = RET_ERR
    /\ \A i \in 1..(Len(rets) - 1) : rets[i] = RET_OK
    /\ log[1].accepted /\ log[1].term = RET_ERR
====
